---- MODULE Spec2Model ----
(***************************************************************************)
(* Relay registry of claude-mobile (packages/relay/src/AgentRegistry.ts): *)
(* the Durable Object that terminates agent and mobile WebSockets, runs   *)
(* the pairing handshake and forwards frames between them.                *)
(*                                                                         *)
(* One action per event the object handles: fetch (WebSocket upgrade),    *)
(* the 'message' listener of each of the three socket kinds, and the      *)
(* 'close' listener.  JSON frames are functions from field names to       *)
(* strings.  A handler's ws.send calls are the operator that gives, for   *)
(* the state it runs in and the frame it received, the <<socket, frame>>  *)
(* pairs it writes; the variables are the object's Maps and its sockets.  *)
(*                                                                         *)
(* The agent process (packages/agent) is the second half of the module:   *)
(* RelayClient with the WebSockets and timers it creates, and the handler *)
(* of one chat_message or task_start frame, one action per await.  Each   *)
(* half has its own specifications and leaves the other's variables       *)
(* unchanged.                                                              *)
(***************************************************************************)
EXTENDS Integers, Sequences, FiniteSets, TLC

\* ---- bounds ------------------------------------------------------------
MaxSockets == 3      \* WebSockets with listeners attached in one run
MaxAgents == 1       \* distinct agentTokens presented in one run
RandDenom == 2       \* Math.random() takes the values k / RandDenom
MaxSessions == 2     \* crypto.randomUUID() calls in one run
MaxWebSockets == 3   \* WebSockets one RelayClient creates in one run
MaxChunks == 2       \* 'data' events of one child process

\* ---- input alphabets ---------------------------------------------------
AgentTokenPool == <<"a1", "a2", "a3">>
AgentTokens == {AgentTokenPool[i] : i \in 1 .. Len(AgentTokenPool)}
UuidPool == <<"u1", "u2", "u3", "u4", "u5">>
Heartbeat == "__heartbeat__"
NeverIssued == "bogus-token"
Malformed == [malformed |-> "not json"]

VARIABLES
  socks,              \* server ends of the accepted WebSocketPairs
  agents,             \* agentToken -> AgentEntry
  pairingCodes,       \* pairingCode -> agentToken
  sessions,           \* sessionToken -> agentToken
  mobileConnections,  \* sessionToken -> mobile WebSocket
  uuidCount,          \* number of crypto.randomUUID() results so far
  track,              \* which of the histories below is recorded
  issuedOn,           \* history: sessionToken -> socket its session_ok
                      \* was sent on
  quietCodes,         \* history: agentToken -> codes of the register_ok
                      \* frames sent to it
  superseded,         \* history: codes held by a registered agent when
                      \* it sent agent_register again
  redeemed,           \* history: codes answered with session_ok since the
                      \* latest agent_register
  registeredOn,       \* history: sockets an agent_register was handled on
  relay,              \* the agent's RelayClient, the WebSockets it created
                      \* and the timers it set
  handling            \* the agent's handler of one request frame

tables == <<agents, pairingCodes, sessions, mobileConnections>>

history == <<issuedOn, quietCodes, superseded, redeemed, registeredOn>>

\* the agent process (packages/agent), at the other end of an agent socket
agent == <<relay, handling>>

vars == <<socks, agents, pairingCodes, sessions, mobileConnections,
          uuidCount, track, issuedOn, quietCodes, superseded, redeemed,
          registeredOn, relay, handling>>

\* ---- JavaScript Map -----------------------------------------------------
EmptyMap == [k \in {} |-> k]

MapHas(m, k) == k \in DOMAIN m

MapSet(m, k, v) == [x \in (DOMAIN m) \cup {k} |-> IF x = k THEN v ELSE m[x]]

MapDelete(m, k) == [x \in (DOMAIN m) \ {k} |-> m[x]]

\* ---- JSON frames --------------------------------------------------------
HasField(msg, f) == f \in DOMAIN msg

\* mutant: { sessionId: sessionToken, ...msg }, the mobile's value wins
StampUnderSupplied(msg, sessionToken) ==
  [f \in (DOMAIN msg) \cup {"sessionId"} |->
     IF f \in DOMAIN msg THEN msg[f] ELSE sessionToken]

\* { ...msg, sessionId: sessionToken }
Stamp(msg, sessionToken) ==
  [f \in (DOMAIN msg) \cup {"sessionId"} |->
     IF f = "sessionId" THEN sessionToken ELSE msg[f]]

\* ---- String(Math.floor(100_000 + Math.random() * 900_000)) --------------
DigitChar(d) ==
  CASE d = 0 -> "0" [] d = 1 -> "1" [] d = 2 -> "2" [] d = 3 -> "3"
    [] d = 4 -> "4" [] d = 5 -> "5" [] d = 6 -> "6" [] d = 7 -> "7"
    [] d = 8 -> "8" [] d = 9 -> "9"

RECURSIVE String(_)
String(n) == IF n < 10 THEN DigitChar(n)
             ELSE String(n \div 10) \o DigitChar(n % 10)

\* Math.random() = k / RandDenom, 0 <= k < RandDenom
RandomDraws == 0 .. (RandDenom - 1)

\* mutant: Math.floor(Math.random() * 1_000_000), not padded
pairingCodeAtUnpadded(k, denom) == String((k * 1000000) \div denom)

\* the code for Math.random() = k / denom
pairingCodeAt(k, denom) == String(100000 + ((k * 900000) \div denom))

generatePairingCode(k) == pairingCodeAt(k, RandDenom)

\* mutant: a token generator that repeats itself
randomUUIDRepeated == UuidPool[1]

\* ---- crypto.randomUUID(): a value never returned before -----------------
randomUUID == UuidPool[uuidCount + 1]

IssuedTokens == {UuidPool[i] : i \in 1 .. uuidCount}

\* ---- sockets ------------------------------------------------------------
Sockets == 1 .. Len(socks)

IsOpen(s) == socks[s].status = "open"

\* ws.send(JSON.stringify(frame)) for each <<socket, frame>> of `out`: the
\* frames that are transmitted; a closed socket transmits nothing.
Delivered(out) == SelectSeq(out, LAMBDA p : IsOpen(p[1]))

\* the state after construction: four empty Maps, no socket accepted
\* ---- the agent process after construction ---------------------------------
null == 0

\* new RelayClient(relayUrl, agentToken): no WebSocket was created and no
\* timer set
InitRelayClient ==
  [ws |-> null, heartbeatTimer |-> null, reconnectTimer |-> null,
   isShuttingDown |-> FALSE,
   readyState |-> <<>>,     \* of the WebSockets doConnect() created
   intervals |-> {},        \* setInterval timers not cleared
   intervalCount |-> 0,
   timeouts |-> {},         \* setTimeout timers neither fired nor cleared
   timeoutCount |-> 0,
   wire |-> <<>>,           \* history: frames written, each with its
                            \* WebSocket
   handlers |-> <<>>,       \* the Set of handlers, in insertion order
   invoked |-> <<>>]        \* history: the handlers the latest 'message'
                            \* event called

NoMessage == [type |-> ""]

\* apps/mobile store: no task (task: null), no message id (a null ref)
NoTask == [id |-> 0, logs |-> <<>>, prUrl |-> "", prTitle |-> ""]

NoId == 0

\* the state of the reducer with the refs of AgentProvider: streamingIdRef,
\* the UUIDs drawn so far, and the frames of the socket handled so far
initialState ==
  [repositories |-> <<>>,
   reposFetched |-> FALSE,
   chatMessages |-> <<>>,
   task |-> NoTask,
   streamingIdRef |-> NoId,
   uuids |-> 0,
   read |-> 0]

\* no frame is being handled
\* a second request whose handler runs at the same time: its position only
NoPeer == [msg |-> NoMessage, pc |-> "idle"]

InitHandling ==
  [msg |-> NoMessage,
   pc |-> "idle",          \* the await the handler is suspended at
   sends |-> <<>>,         \* history: the relay.send calls and their results
   steps |-> <<>>,         \* history: the pipeline steps run and how they ended
   chunks |-> 0,           \* 'data' events of the child process so far
   modified |-> FALSE,     \* git status reports files in the working tree
   branch |-> "main",      \* the branch the working copy is checked out on
   args |-> <<>>,          \* history: the arguments the tool was spawned with
   pr |-> <<>>,            \* history: the pull requests created
   peer |-> NoPeer,
   store |-> initialState] \* the mobile application of the session

InitRegistry ==
  /\ relay = InitRelayClient
  /\ handling = InitHandling
  /\ socks = <<>>
  /\ agents = EmptyMap
  /\ pairingCodes = EmptyMap
  /\ sessions = EmptyMap
  /\ mobileConnections = EmptyMap
  /\ uuidCount = 0
  /\ issuedOn = EmptyMap
  /\ quietCodes = [t \in AgentTokens |-> {}]
  /\ superseded = {}
  /\ redeemed = {}
  /\ registeredOn = {}

Init == InitRegistry /\ track = "none"

\* the histories, each recorded under the specification that reads it
QuietAfterRegister(agentToken, pairingCode) ==
  IF track = "quiet"
  THEN [quietCodes EXCEPT ![agentToken] = @ \cup {pairingCode}]
  ELSE quietCodes

SupersededAfterRegister(agentToken) ==
  IF track = "superseded" /\ MapHas(agents, agentToken)
  THEN superseded \cup {agents[agentToken].pairingCode}
  ELSE superseded

RegisteredOnAfterRegister(s) ==
  IF track = "registered" THEN registeredOn \cup {s} ELSE registeredOn

RedeemedAfterPair(pairingCode) ==
  IF track = "redeemed" THEN redeemed \cup {pairingCode} ELSE redeemed

\* ---- fetch: WebSocket upgrade --------------------------------------------
Min(a, b) == IF a < b THEN a ELSE b

\* agentTokens are opaque: a run presents them in the order of the pool
UsedAgents ==
  Cardinality({socks[s].token : s \in {x \in Sockets : socks[x].kind = "agent"}})

\* the run that looks at codes shared between agents needs a second
\* agentToken
AgentsBound == IF track = "shared" THEN MaxAgents + 1 ELSE MaxAgents

AgentTokenInputs ==
  {AgentTokenPool[i] : i \in 1 .. Min(AgentsBound, UsedAgents + 1)}

\* URL query strings; "" stands for an absent parameter.
FetchInputs ==
  {[type |-> "agent", agentToken |-> t, sessionToken |-> ""] :
      t \in AgentTokenInputs \cup {""}}
  \cup {[type |-> "mobile", agentToken |-> "", sessionToken |-> x] :
      x \in IssuedTokens \cup {Heartbeat, ""}}
  \cup {[type |-> k, agentToken |-> "", sessionToken |-> ""] :
      k \in {"", "other"}}

\* frames is a history: the task_done frames read from or written to the
\* socket
NewSocket(kind, token) ==
  [kind |-> kind, token |-> token, status |-> "open", frames |-> <<>>]

\* what fetch() does with the accepted server socket for the query string
\* `url`: "rejected" is server.close(4000, 'Missing agentToken')
FetchKind(url) ==
  IF url.type = "agent"
  THEN IF url.agentToken = "" THEN "rejected" ELSE "agent"
  ELSE IF url.sessionToken # "" THEN "mobile" ELSE "pairing"

FetchToken(url) ==
  IF url.type = "agent" THEN url.agentToken ELSE url.sessionToken

\* mutant: the socket opened with a sessionToken is not recorded
FetchMobileConnectionsUnset(url, s) == mobileConnections

\* mobileConnections after fetch() accepted socket `s` for `url`
FetchMobileConnections(url, s) ==
  IF FetchKind(url) = "mobile"
  THEN MapSet(mobileConnections, url.sessionToken, s)
  ELSE mobileConnections

\* a request without the Upgrade header is answered 426 and accepts no
\* socket
FetchNoUpgrade ==
  UNCHANGED <<socks, tables, uuidCount, track, agent, history>>

\* the run through an agent outage takes four sockets: the agent's two,
\* the pairing socket and the mobile's; so does the run of a mobile with two
\* sockets
OutageSockets == 4

SocketsBound ==
  IF track \in {"outage", "twice"} THEN OutageSockets ELSE MaxSockets

Fetch(url) ==
  /\ Len(socks) < SocketsBound
  /\ IF FetchKind(url) = "rejected"
     THEN UNCHANGED <<socks, mobileConnections>>
     ELSE LET s == Len(socks) + 1 IN
          /\ socks' = Append(socks, NewSocket(FetchKind(url), FetchToken(url)))
          /\ mobileConnections' = FetchMobileConnections(url, s)
  /\ UNCHANGED <<agents, pairingCodes, sessions, uuidCount, track, agent,
                 history>>

\* ---- frames received -----------------------------------------------------
CanReceive(s, kind) ==
  /\ s \in Sockets
  /\ socks[s].kind = kind
  /\ IsOpen(s)

\* ---- handleAgentConnection: 'message' listener ---------------------------
AgentInputs ==
  {Malformed, [type |-> "stream_end"], [type |-> "ping", sessionId |-> Heartbeat]}
  \cup {[type |-> "stream_chunk", sessionId |-> x, text |-> "Running..."] :
          x \in IssuedTokens}

\* mutant: the existing entry's code is not deleted
RegisterPairingCodesKeepOld(agentToken, pairingCode) ==
  MapSet(pairingCodes, pairingCode, agentToken)

\* pairingCodes after agent_register: the existing entry's code is deleted,
\* the new one is set
RegisterPairingCodes(agentToken, pairingCode) ==
  LET kept == IF MapHas(agents, agentToken)
              THEN MapDelete(pairingCodes, agents[agentToken].pairingCode)
              ELSE pairingCodes
  IN MapSet(kept, pairingCode, agentToken)

\* mutant: an agent frame is sent to every mobile socket the relay knows
ForwardTargetsBroadcast(sessionId) ==
  SelectSeq([i \in 1 .. Len(socks) |-> i],
            LAMBDA x : \E u \in DOMAIN mobileConnections :
                         mobileConnections[u] = x)

\* sockets an agent frame with this sessionId is sent to
ForwardTargets(sessionId) ==
  IF MapHas(mobileConnections, sessionId)
  THEN <<mobileConnections[sessionId]>>
  ELSE <<>>

\* what the agent_register branch sends: register_ok on the agent's socket
AgentRegisterReply(s, pairingCode) ==
  <<<<s, [type |-> "register_ok", pairingCode |-> pairingCode]>>>>

\* the listener's agent_register branch, for the frame RelayClient sends
\* first on every connection; k is the Math.random() draw
AgentRegister(s, k) ==
  /\ CanReceive(s, "agent")
  /\ LET agentToken == socks[s].token
         pairingCode == generatePairingCode(k)
     IN /\ pairingCodes' = RegisterPairingCodes(agentToken, pairingCode)
        /\ agents' = MapSet(agents, agentToken,
                            [ws |-> s, pairingCode |-> pairingCode])
        /\ quietCodes' = QuietAfterRegister(agentToken, pairingCode)
        /\ superseded' = SupersededAfterRegister(agentToken)
        /\ redeemed' = {}
        /\ registeredOn' = RegisteredOnAfterRegister(s)
  /\ UNCHANGED <<socks, sessions, mobileConnections, uuidCount, track, agent,
                 issuedOn>>

\* what the listener's other branches send: unparsable data is ignored, any
\* other frame is forwarded by its sessionId
AgentForward(msg) ==
  IF msg # Malformed /\ HasField(msg, "sessionId") /\ msg.sessionId # ""
  THEN LET to == ForwardTargets(msg.sessionId)
       IN [i \in 1 .. Len(to) |-> <<to[i], msg>>]
  ELSE <<>>

\* the listener's other branches send AgentForward(msg) and touch no Map
AgentMessage(s, msg) ==
  /\ CanReceive(s, "agent")
  /\ msg \in AgentInputs
  /\ UNCHANGED <<socks, tables, uuidCount, track, agent, history>>

\* ---- handleAgentConnection / handleMobileConnection: 'close' listener ----
\* mutant: the entry outlives its socket
CloseAgentsKept(s, agentToken) == agents

\* agents after the close of an agent socket opened with agentToken
CloseAgents(s, agentToken) ==
  IF MapHas(agents, agentToken) THEN MapDelete(agents, agentToken) ELSE agents

ClosePairingCodes(s, agentToken) ==
  IF MapHas(agents, agentToken)
  THEN MapDelete(pairingCodes, agents[agentToken].pairingCode)
  ELSE pairingCodes

\* mutant: the close listener only drops the socket mapping
CloseSessionsKept(sessionToken) == sessions

\* sessions after the close of a mobile socket opened with sessionToken
CloseSessions(sessionToken) == MapDelete(sessions, sessionToken)

CloseMobileConnections(sessionToken) == MapDelete(mobileConnections, sessionToken)

Close(s) ==
  /\ s \in Sockets
  /\ IsOpen(s)
  /\ socks' = [socks EXCEPT ![s].status = "closed"]
  /\ CASE socks[s].kind = "agent" ->
            /\ agents' = CloseAgents(s, socks[s].token)
            /\ pairingCodes' = ClosePairingCodes(s, socks[s].token)
            /\ UNCHANGED <<sessions, mobileConnections>>
       [] socks[s].kind = "mobile" ->
            /\ mobileConnections' = CloseMobileConnections(socks[s].token)
            /\ sessions' = CloseSessions(socks[s].token)
            /\ UNCHANGED <<agents, pairingCodes>>
       [] OTHER ->
            UNCHANGED <<agents, pairingCodes, sessions, mobileConnections>>
  /\ UNCHANGED <<uuidCount, track, agent, history>>

\* ---- handleMobileConnection: 'message' listener --------------------------
\* frames a mobile may send on the socket it opened with sessionToken: the
\* sessionId it supplies is its own token, another value, or absent
MobileInputs(sessionToken) ==
  {Malformed, [type |-> "chat_message", text |-> "hello"],
   [type |-> "invalidate_pairing", sessionId |-> sessionToken]}
  \cup {[type |-> "chat_message", sessionId |-> x, text |-> "hello"] :
          x \in {sessionToken, NeverIssued}}

ErrorFrame(message) == [type |-> "error", message |-> message]

\* the source writes the dash as U+2014
SessionExpired == "Session expired - reconnect"

\* mutant: a frame for an agent without an entry is dropped without a reply
MobileReplySilent(s, sessionToken, msg) ==
  IF msg = Malformed
  THEN <<>>
  ELSE IF ~MapHas(sessions, sessionToken)
  THEN <<<<s, ErrorFrame(SessionExpired)>>>>
  ELSE IF ~MapHas(agents, sessions[sessionToken])
  THEN <<>>
  ELSE <<<<agents[sessions[sessionToken]].ws, Stamp(msg, sessionToken)>>>>

\* what the listener of a socket opened with sessionToken sends for msg
MobileReply(s, sessionToken, msg) ==
  IF msg = Malformed
  THEN <<>>
  ELSE IF ~MapHas(sessions, sessionToken)
  THEN <<<<s, ErrorFrame(SessionExpired)>>>>
  ELSE IF ~MapHas(agents, sessions[sessionToken])
  THEN <<<<s, ErrorFrame("Agent disconnected")>>>>
  ELSE <<<<agents[sessions[sessionToken]].ws, Stamp(msg, sessionToken)>>>>

\* the listener sends MobileReply(s, sessionToken, msg) and touches no Map
MobileMessage(s, msg) ==
  /\ CanReceive(s, "mobile")
  /\ msg \in MobileInputs(socks[s].token)
  /\ UNCHANGED <<socks, tables, uuidCount, track, agent, history>>

\* ---- handleMobilePairingConnection: 'message' listener -------------------
ConnectFrame(pairingCode) ==
  [type |-> "mobile_connect", pairingCode |-> pairingCode]

\* codes a mobile may present: every code the relay can issue, and one it
\* cannot
PairingCodeInputs ==
  {generatePairingCode(k) : k \in RandomDraws} \cup {"000000"}

PairingInputs ==
  {Malformed, [type |-> "chat_message", text |-> "hello"]}
  \cup {ConnectFrame(c) : c \in PairingCodeInputs}

\* mutant: an unknown code is dropped without a reply
PairingReplySilent(s, msg) ==
  IF msg = Malformed \/ msg.type # "mobile_connect"
  THEN <<>>
  ELSE IF ~MapHas(pairingCodes, msg.pairingCode)
  THEN <<>>
  ELSE <<<<s, [type |-> "session_ok", sessionToken |-> randomUUID]>>>>

\* what the listener sends for msg on pairing socket s
PairingReply(s, msg) ==
  IF msg = Malformed \/ msg.type # "mobile_connect"
  THEN <<>>
  ELSE IF ~MapHas(pairingCodes, msg.pairingCode)
  THEN <<<<s, ErrorFrame("Invalid or expired pairing code")>>>>
  ELSE <<<<s, [type |-> "session_ok", sessionToken |-> randomUUID]>>>>

\* mutant: the redeemed code stays in the table
PairPairingCodesKept(pairingCode) == pairingCodes

\* pairingCodes after a successful mobile_connect
PairPairingCodes(pairingCode) == MapDelete(pairingCodes, pairingCode)

\* mutant: the pairing rewrites the sessions that exist already
PairSessionsRewritten(sessionToken, agentToken) ==
  [x \in DOMAIN sessions \cup {sessionToken} |->
     IF x = sessionToken THEN agentToken ELSE ""]

\* sessions after a successful mobile_connect
PairSessions(sessionToken, agentToken) ==
  MapSet(sessions, sessionToken, agentToken)

\* the listener sends PairingReply(s, msg); a mobile_connect with a code of
\* the table creates the session and deletes the code
PairingMessage(s, msg) ==
  /\ CanReceive(s, "pairing")
  /\ IF msg = Malformed \/ msg.type # "mobile_connect"
     THEN UNCHANGED <<pairingCodes, sessions, mobileConnections,
                     uuidCount, issuedOn, redeemed>>
     ELSE IF ~MapHas(pairingCodes, msg.pairingCode)
     THEN UNCHANGED <<pairingCodes, sessions, mobileConnections,
                     uuidCount, issuedOn, redeemed>>
     ELSE LET agentToken == pairingCodes[msg.pairingCode]
              sessionToken == randomUUID
          IN /\ uuidCount < MaxSessions
             /\ uuidCount' = uuidCount + 1
             /\ sessions' = PairSessions(sessionToken, agentToken)
             /\ mobileConnections' = MapSet(mobileConnections, sessionToken, s)
             /\ pairingCodes' = PairPairingCodes(msg.pairingCode)
             /\ issuedOn' = MapSet(issuedOn, sessionToken, s)
             /\ redeemed' = RedeemedAfterPair(msg.pairingCode)
  /\ UNCHANGED <<socks, agents, track, agent, quietCodes, superseded,
                 registeredOn>>

\* ---- specification --------------------------------------------------------
Next ==
  \/ FetchNoUpgrade
  \/ \E url \in FetchInputs : Fetch(url)
  \/ \E s \in Sockets, k \in RandomDraws : AgentRegister(s, k)
  \/ \E s \in Sockets, msg \in AgentInputs : AgentMessage(s, msg)
  \/ \E s \in Sockets :
       \E msg \in MobileInputs(socks[s].token) : MobileMessage(s, msg)
  \/ \E s \in Sockets, msg \in PairingInputs : PairingMessage(s, msg)
  \/ \E s \in Sockets : Close(s)

Spec == Init /\ [][Next]_vars

\* the program while no mobile sends a frame: mobiles may connect and
\* disconnect, agents register, send, close and reconnect; the codes of
\* the register_ok frames are recorded
InitQuiet == InitRegistry /\ track = "quiet"

NextQuiet ==
  \/ FetchNoUpgrade
  \/ \E url \in FetchInputs : Fetch(url)
  \/ \E s \in Sockets, k \in RandomDraws : AgentRegister(s, k)
  \/ \E s \in Sockets, msg \in AgentInputs : AgentMessage(s, msg)
  \/ \E s \in Sockets : Close(s)

SpecQuiet == InitQuiet /\ [][NextQuiet]_vars

\* the program of Spec, with one of the histories recorded
InitSuperseded == InitRegistry /\ track = "superseded"

SpecSuperseded == InitSuperseded /\ [][Next]_vars

InitRedeemed == InitRegistry /\ track = "redeemed"

SpecRedeemed == InitRedeemed /\ [][Next]_vars

InitRegistered == InitRegistry /\ track = "registered"

SpecRegistered == InitRegistered /\ [][Next]_vars

InitShared == InitRegistry /\ track = "shared"

SpecShared == InitShared /\ [][Next]_vars

\* ---- vocabulary of the properties -----------------------------------------
\* the frames `out` that reach a socket are one frame of this type, on s
Answers(out, s, type) ==
  /\ Len(Delivered(out)) = 1
  /\ Delivered(out)[1][1] = s
  /\ Delivered(out)[1][2].type = type

\* codes some registered agent's entry holds
HeldCodes == {agents[t].pairingCode : t \in DOMAIN agents}

\* codes the pairing-code table maps to agentToken t
CodesOf(t) == {c \in DOMAIN pairingCodes : pairingCodes[c] = t}

\* session tokens whose frames socket s sends or was issued
BoundTokens(s) ==
  IF socks[s].kind = "mobile" THEN {socks[s].token}
  ELSE {u \in DOMAIN issuedOn : issuedOn[u] = s}

C4_OldCodeUnusable ==
  /\ \A s \in Sockets, k \in RandomDraws :
       CanReceive(s, "agent") =>
         /\ Answers(AgentRegisterReply(s, generatePairingCode(k)), s,
                    "register_ok")
         /\ Len(AgentRegisterReply(s, generatePairingCode(k))[1][2].pairingCode)
              = 6
  /\ \A s \in Sockets, c \in superseded :
       CanReceive(s, "pairing") =>
         Answers(PairingReply(s, ConnectFrame(c)), s, "error")

\* ---- C5 --------------------------------------------------------------------
\* C5: every frame forwarded from a mobile socket to an agent carries as
\* sessionId the session token of that socket, whatever sessionId (or none)
\* the mobile supplied, and all its other fields unchanged.
C5_SessionIdStamped ==
  \A s \in Sockets :
    CanReceive(s, "mobile") =>
      \A msg \in MobileInputs(socks[s].token) :
        LET out == Delivered(MobileReply(s, socks[s].token, msg))
        IN \A i \in 1 .. Len(out) :
             socks[out[i][1]].kind = "agent" =>
               /\ DOMAIN out[i][2] = (DOMAIN msg) \cup {"sessionId"}
               /\ out[i][2].sessionId = socks[s].token
               /\ \A f \in (DOMAIN msg) \ {"sessionId"} : out[i][2][f] = msg[f]

\* a paired mobile's socket whose frame with a foreign sessionId is forwarded
\* to the agent's socket
C5_Witness ==
  \E s \in Sockets :
    /\ CanReceive(s, "mobile")
    /\ socks[s].token \in IssuedTokens
    /\ LET msg == [type |-> "chat_message", sessionId |-> NeverIssued,
                   text |-> "hello"]
           out == Delivered(MobileReply(s, socks[s].token, msg))
       IN /\ msg \in MobileInputs(socks[s].token)
          /\ Len(out) = 1
          /\ socks[out[1][1]].kind = "agent"
          /\ out[1][2].sessionId = socks[s].token

\* ---- C6 --------------------------------------------------------------------
\* C6: a frame an agent sends with sessionId S is delivered to at most one
\* mobile socket, the one currently mapped to S, which is a socket bound to
\* S; no socket bound only to other tokens receives it.
C6_RoutedBySessionId ==
  \A s \in Sockets :
    CanReceive(s, "agent") =>
      \A msg \in AgentInputs :
        LET out == Delivered(AgentForward(msg))
        IN /\ Len(out) <= 1
           /\ \A i \in 1 .. Len(out) :
                /\ HasField(msg, "sessionId")
                /\ MapHas(mobileConnections, msg.sessionId)
                /\ out[i][1] = mobileConnections[msg.sessionId]
                /\ msg.sessionId \in BoundTokens(out[i][1])
                /\ out[i][2] = msg

\* an agent's frame is delivered to one socket while another open mobile
\* socket, bound to another token, is connected
C6_Witness ==
  \E a \in Sockets, msg \in AgentInputs :
    /\ CanReceive(a, "agent")
    /\ MapHas(agents, socks[a].token)
    /\ Len(Delivered(AgentForward(msg))) = 1
    /\ \E s \in Sockets :
         /\ s # Delivered(AgentForward(msg))[1][1]
         /\ CanReceive(s, "mobile")
         /\ msg.sessionId \notin BoundTokens(s)

\* ---- C7 --------------------------------------------------------------------
\* C7: an agent frame is delivered to a mobile socket only if its sessionId
\* is a session token the relay issued and has not destroyed; with any other
\* sessionId ("__heartbeat__", a token only presented in a URL) it reaches no
\* socket.
C7_OnlyLiveSessions ==
  \A s \in Sockets :
    CanReceive(s, "agent") =>
      \A msg \in AgentInputs :
        Delivered(AgentForward(msg)) # <<>>
          => MapHas(sessions, msg.sessionId)

\* ---- C8 --------------------------------------------------------------------
\* C8: when a paired mobile sends invalidate_pairing on session S, the relay
\* removes S and its socket mapping and, if the agent is live, sends it a
\* register_ok with a new pairing code: whenever a paired mobile whose agent
\* is live can send the frame, what the relay sends for it includes that
\* register_ok on the agent's socket.
C8_InvalidateRotates ==
  \A s \in Sockets :
    (/\ CanReceive(s, "mobile")
     /\ MapHas(sessions, socks[s].token)
     /\ MapHas(agents, sessions[socks[s].token]))
      => LET S == socks[s].token
             out == Delivered(MobileReply(s, S,
                      [type |-> "invalidate_pairing", sessionId |-> S]))
         IN \E i \in 1 .. Len(out) :
              /\ out[i][1] = agents[sessions[S]].ws
              /\ out[i][2].type = "register_ok"
              /\ out[i][2].pairingCode # agents[sessions[S]].pairingCode

C10_DisplacedCloseKeepsAgent ==
  [][\A s \in Sockets :
       LET t == socks[s].token
       IN (Close(s) /\ socks[s].kind = "agent"
             /\ s \in registeredOn
             /\ MapHas(agents, t) /\ agents[t].ws # s)
            => /\ MapHas(agents', t)
               /\ agents'[t] = agents[t]
               /\ pairingCodes' = pairingCodes]_vars

\* ---- C11 -------------------------------------------------------------------
\* C11: no pairing code is associated with two different agents: the codes
\* of two registered agents differ, every code the table maps belongs to
\* the agent it maps to, and a registration or disconnection of one agent
\* leaves the code-to-agent mappings of every other agent as they were.
C11_CodeOfOneAgent ==
  /\ [](\A t \in DOMAIN agents, u \in DOMAIN agents :
          t # u => agents[t].pairingCode # agents[u].pairingCode)
  /\ [][(agents' # agents) =>
          \A s \in Sockets, u \in DOMAIN agents :
            (socks[s].kind = "agent" /\ socks[s].token # u
               /\ ((\E k \in RandomDraws : AgentRegister(s, k)) \/ Close(s)))
              => CodesOf(u)' = CodesOf(u)]_vars

\* ---- C12 -------------------------------------------------------------------
\* C12: a mobile socket opened with a sessionToken the relay does not hold
\* (never issued, or its session destroyed) gets the error "Session expired
\* - reconnect" for the frames it sends and is never the socket that
\* mobileConnections names as the target of agent frames.
C12_UnknownTokenNotATarget ==
  \A s \in Sockets :
    (CanReceive(s, "mobile") /\ ~MapHas(sessions, socks[s].token)) =>
      /\ \A msg \in MobileInputs(socks[s].token) \ {Malformed} :
           /\ Answers(MobileReply(s, socks[s].token, msg), s, "error")
           /\ MobileReply(s, socks[s].token, msg)[1][2].message
                = SessionExpired
      /\ \A x \in DOMAIN mobileConnections : mobileConnections[x] # s

\* ---- C13 -------------------------------------------------------------------
\* C13: on an open pairing socket a mobile_connect whose code the table
\* does not map is answered with exactly one error "Invalid or expired
\* pairing code" on that socket, while a mobile_connect with a mapped code
\* on the same socket is answered with session_ok; no step that issues a
\* token, changes the sessions or changes a socket is the handling of a
\* mobile_connect with an unmapped code.
C13_InvalidCodeRejected ==
  /\ [](\A s \in Sockets, c \in PairingCodeInputs :
          CanReceive(s, "pairing") =>
            IF MapHas(pairingCodes, c)
            THEN Answers(PairingReply(s, ConnectFrame(c)), s, "session_ok")
            ELSE /\ Answers(PairingReply(s, ConnectFrame(c)), s, "error")
                 /\ PairingReply(s, ConnectFrame(c))[1][2].message
                      = "Invalid or expired pairing code")
  /\ [][(uuidCount' # uuidCount \/ sessions' # sessions
           \/ (socks' # socks /\ Len(socks') = Len(socks))) =>
          \A s \in Sockets, c \in PairingCodeInputs :
            ~MapHas(pairingCodes, c) => ~PairingMessage(s, ConnectFrame(c))]_vars

\* a pairing socket that was already answered with session_ok is open while
\* one code is mapped and another is not
C13_Witness ==
  \E s \in Sockets :
    /\ CanReceive(s, "pairing")
    /\ \E u \in DOMAIN issuedOn : issuedOn[u] = s
    /\ \E c \in PairingCodeInputs : MapHas(pairingCodes, c)
    /\ \E c \in PairingCodeInputs : ~MapHas(pairingCodes, c)

\* ---- C14 -------------------------------------------------------------------
\* C14: a frame a mobile sends on the socket of an existing session while
\* the session's agent has no entry is answered with exactly one error
\* "Agent disconnected" on that mobile socket and reaches no other socket;
\* no step that changes the sessions is the handling of a mobile frame.
C14_AgentDisconnected ==
  /\ [](\A s \in Sockets :
          (/\ CanReceive(s, "mobile")
           /\ MapHas(sessions, socks[s].token)
           /\ ~MapHas(agents, sessions[socks[s].token])) =>
            \A msg \in MobileInputs(socks[s].token) \ {Malformed} :
              /\ Answers(MobileReply(s, socks[s].token, msg), s, "error")
              /\ MobileReply(s, socks[s].token, msg)[1][2].message
                   = "Agent disconnected")
  /\ [][(sessions' # sessions) =>
          \A s \in Sockets :
            CanReceive(s, "mobile") =>
              \A msg \in MobileInputs(socks[s].token) : ~MobileMessage(s, msg)]_vars

\* the agent of a session went away while the session's mobile socket is open
C14_Witness ==
  \E s \in Sockets :
    /\ CanReceive(s, "mobile")
    /\ MapHas(sessions, socks[s].token)
    /\ ~MapHas(agents, sessions[socks[s].token])
    /\ mobileConnections[socks[s].token] = s

\* ---- C15 -------------------------------------------------------------------
\* C15: the sessionToken of a session_ok was carried by no earlier
\* session_ok and names no session, and no step - a pairing, a registration
\* or any other - changes the agent an existing session token maps to.
C15_TokenUniqueMappingFixed ==
  /\ [](\A s \in Sockets, c \in DOMAIN pairingCodes :
          CanReceive(s, "pairing") =>
            LET sessionToken ==
                  PairingReply(s, ConnectFrame(c))[1][2].sessionToken
            IN /\ sessionToken \notin IssuedTokens
               /\ ~MapHas(issuedOn, sessionToken)
               /\ ~MapHas(sessions, sessionToken))
  /\ [][(sessions' # sessions) =>
          \A u \in DOMAIN sessions :
            MapHas(sessions', u) => sessions'[u] = sessions[u]]_vars

\* two tokens were issued, the first session is alive and its agent has
\* registered again since
C15_Witness ==
  /\ uuidCount = 2
  /\ MapHas(sessions, UuidPool[1])
  /\ MapHas(agents, sessions[UuidPool[1]])
  /\ MapHas(pairingCodes, agents[sessions[UuidPool[1]]].pairingCode)

\* ==== packages/agent: RelayClient ==========================================
\* The client's fields are relay.ws, relay.heartbeatTimer,
\* relay.reconnectTimer and relay.isShuttingDown.  A WebSocket is its index
\* in relay.readyState, a timer the number of the call that set it.
registry == <<socks, tables, uuidCount, track, history>>

WebSockets == 1 .. Len(relay.readyState)

\* WebSockets that are connecting or open
LiveWebSockets ==
  {w \in WebSockets : relay.readyState[w] \in {"CONNECTING", "OPEN"}}

\* mutant: the readyState of the socket is not looked at
isConnectedAnyState(r) == r.ws # null

\* get isConnected
isConnected(r) == r.ws # null /\ r.readyState[r.ws] = "OPEN"

doConnect(r) ==
  [r EXCEPT !.readyState = Append(r.readyState, "CONNECTING"),
            !.ws = Len(r.readyState) + 1]

startHeartbeat(r) ==
  [r EXCEPT !.intervalCount = r.intervalCount + 1,
            !.intervals = r.intervals \cup {r.intervalCount + 1},
            !.heartbeatTimer = r.intervalCount + 1]

stopHeartbeat(r) ==
  IF r.heartbeatTimer # null
  THEN [r EXCEPT !.intervals = r.intervals \ {r.heartbeatTimer},
                 !.heartbeatTimer = null]
  ELSE r

\* mutant: a close schedules nothing
scheduleReconnectNever(r) == r

scheduleReconnect(r) ==
  [r EXCEPT !.timeoutCount = r.timeoutCount + 1,
            !.timeouts = r.timeouts \cup {r.timeoutCount + 1},
            !.reconnectTimer = r.timeoutCount + 1]

\* the clearTimeout branch of disconnect()
clearReconnect(r) ==
  IF r.reconnectTimer # null
  THEN [r EXCEPT !.timeouts = r.timeouts \ {r.reconnectTimer},
                 !.reconnectTimer = null]
  ELSE r

\* this.ws?.close(1000, ...): the socket is closing until its 'close' event
closeWs(r) ==
  IF r.ws # null /\ r.readyState[r.ws] \in {"CONNECTING", "OPEN"}
  THEN [r EXCEPT !.readyState[r.ws] = "CLOSING"]
  ELSE r

\* ws.send(data) on WebSocket w, recorded under the specifications that
\* read the frames written: every frame, or the first frame of each socket
Wired(r, w, msg) ==
  IF \/ track = "wire"
     \/ track = "first" /\ \A i \in 1 .. Len(r.wire) : r.wire[i].ws # w
  THEN [r EXCEPT !.wire = Append(r.wire, [ws |-> w, msg |-> msg])]
  ELSE r

\* mutant: a frame sent while no socket is open waits for the next one
transmitQueued(r, msg) ==
  IF isConnected(r)
  THEN Wired(r, r.ws, msg)
  ELSE Wired(r, Len(r.readyState) + 1, msg)

\* send(msg), the client's side of it: the frame is written to the current
\* socket if that is open
transmit(r, msg) ==
  IF isConnected(r) THEN Wired(r, r.ws, msg) ELSE r

AgentRegisterMessage == [type |-> "agent_register", agentToken |-> "a1"]

Ping == [type |-> "ping", sessionId |-> Heartbeat]

\* connect()
Connect ==
  /\ relay.ws = null => Len(relay.readyState) < MaxWebSockets
  /\ relay' = IF relay.ws # null THEN relay ELSE doConnect(relay)
  /\ UNCHANGED <<registry, handling>>

\* disconnect()
Disconnect ==
  /\ relay' = [closeWs(clearReconnect(stopHeartbeat(
                  [relay EXCEPT !.isShuttingDown = TRUE])))
               EXCEPT !.ws = null]
  /\ UNCHANGED <<registry, handling>>

\* ws.on('open'): agent_register is written to w, the heartbeat started
SocketOpen(w) ==
  /\ w \in WebSockets
  /\ relay.readyState[w] = "CONNECTING"
  /\ relay' = startHeartbeat(Wired([relay EXCEPT !.readyState[w] = "OPEN"],
                                    w, AgentRegisterMessage))
  /\ UNCHANGED <<registry, handling>>

\* the client after the 'close' listener of any of its WebSockets
onClose(r) ==
  IF r.isShuttingDown
  THEN [stopHeartbeat(r) EXCEPT !.ws = null]
  ELSE scheduleReconnect([stopHeartbeat(r) EXCEPT !.ws = null])

\* ws.on('close')
SocketClose(w) ==
  /\ w \in WebSockets
  /\ relay.readyState[w] # "CLOSED"
  /\ relay' = onClose([relay EXCEPT !.readyState[w] = "CLOSED"])
  /\ UNCHANGED <<registry, handling>>

\* the setTimeout callback of scheduleReconnect()
ReconnectFire(t) ==
  /\ t \in relay.timeouts
  /\ Len(relay.readyState) < MaxWebSockets
  /\ relay' = doConnect([relay EXCEPT !.timeouts = relay.timeouts \ {t},
                                     !.reconnectTimer = null])
  /\ UNCHANGED <<registry, handling>>

\* the setInterval callback of startHeartbeat(): send() writes the ping if
\* the current socket is open, and no field changes
HeartbeatTick(t) ==
  /\ t \in relay.intervals
  /\ relay' = transmit(relay, Ping)
  /\ UNCHANGED <<registry, handling>>

InitClient == InitRegistry /\ track = "client"

NextClient ==
  \/ Connect
  \/ Disconnect
  \/ \E w \in WebSockets : SocketOpen(w)
  \/ \E w \in WebSockets : SocketClose(w)
  \/ \E t \in relay.timeouts : ReconnectFire(t)
  \/ \E t \in relay.intervals : HeartbeatTick(t)

SpecClient == InitClient /\ [][NextClient]_vars

\* a timer that was set and not cleared fires
SpecClientLive ==
  SpecClient /\ WF_vars(\E t \in relay.timeouts : ReconnectFire(t))

\* ---- C19 -------------------------------------------------------------------
\* C19: at every moment at most one WebSocket of the RelayClient is
\* connecting or open, whatever the order of connect(), disconnect(), the
\* sockets' open and close events and the reconnect timers.
C19_OneSocket == Cardinality(LiveWebSockets) <= 1

\* ---- C20 -------------------------------------------------------------------
\* C20: the heartbeat timer is set exactly when the client's current socket
\* is open, and at most one heartbeat interval is running.
C20_HeartbeatIffOpen ==
  /\ (relay.heartbeatTimer # null) <=> isConnected(relay)
  /\ Cardinality(relay.intervals) <= 1

\* ==== packages/agent: dispatch and the handlers ============================
\* One frame is followed from dispatch() to the return of its handler.
\* Every await is an action: the awaited operation succeeds or throws.
SessionId == "u1"

\* frames the relay forwards to the agent; a field the mobile left out is
\* absent from the record
RequestInputs ==
  {[type |-> "pong", sessionId |-> SessionId],
   [type |-> "chat_message", sessionId |-> SessionId, text |-> "hi",
    repoFullName |-> ""],
   [type |-> "chat_message", sessionId |-> SessionId, text |-> "hi",
    repoFullName |-> "o/r"],
   [type |-> "task_start", sessionId |-> SessionId, context |-> "do it",
    repoFullName |-> "o/r", baseBranch |-> "main"],
   [type |-> "task_start", sessionId |-> SessionId,
    repoFullName |-> "o/r", baseBranch |-> "main"]}

ExitCodes == {0, 1}

\* relay.send(msg): written only if the current socket is open; the result
\* is what the call returns
send(h, msg) ==
  [h EXCEPT !.sends = Append(h.sends,
                             [msg |-> msg, result |-> isConnected(relay)])]

sendError(h, message) ==
  send(h, [type |-> "error", sessionId |-> h.msg.sessionId,
           message |-> message])

streamChunk(h, text) ==
  send(h, [type |-> "stream_chunk", sessionId |-> h.msg.sessionId,
           text |-> text])

\* the step ran; ok is FALSE if it threw (for the tool: exited non-zero)
Ran(h, step, ok) ==
  [h EXCEPT !.steps = Append(h.steps, [step |-> step, ok |-> ok])]

At(h, pc) == [h EXCEPT !.pc = pc]

\* a catch block of a handler: sendError(relay, msg.sessionId, err); return
Caught(h, step) == At(sendError(Ran(h, step, FALSE), step), "returned")

\* the relay.send calls of the step taken, as the client transmits them
RECURSIVE transmitAll(_, _)
transmitAll(r, calls) ==
  IF calls = <<>>
  THEN r
  ELSE transmitAll(transmit(r, Head(calls).msg), Tail(calls))

Transmit ==
  relay' = transmitAll(relay, SubSeq(handling'.sends, Len(handling.sends) + 1,
                                     Len(handling'.sends)))

\* dispatch(): the handler runs up to its first await
Dispatched(msg) ==
  IF msg.type = "task_start"
  THEN At([InitHandling EXCEPT !.msg = msg], "ensureRepo")
  ELSE IF msg.type = "chat_message"
  THEN At([InitHandling EXCEPT !.msg = msg],
          IF msg.repoFullName # "" THEN "ensureRepo" ELSE "spawn")
  ELSE InitHandling

Dispatch(msg) ==
  /\ handling.pc = "idle"
  /\ isConnected(relay)
  /\ handling' = Dispatched(msg)
  /\ UNCHANGED <<registry, relay>>

\* handleTaskStart after ensureRepo() resolved: msg.context.slice() is
\* outside every try block
generateBranchName(h) ==
  IF HasField(h.msg, "context")
  THEN At(Ran(h, "generateBranchName", TRUE), "createBranch")
  ELSE At(Ran(h, "generateBranchName", FALSE), "rejected")

\* await ensureRepo(...): handleChatMessage calls it outside its try block
ensureRepo(h, ok) ==
  IF h.msg.type = "chat_message"
  THEN IF ok
       THEN At(Ran(h, "ensureRepo", TRUE), "spawn")
       ELSE At(Ran(h, "ensureRepo", FALSE), "rejected")
  ELSE IF ok
       THEN generateBranchName(Ran(h, "ensureRepo", TRUE))
       ELSE Caught(h, "ensureRepo")

EnsureRepo(ok) ==
  /\ handling.pc = "ensureRepo"
  /\ handling' = ensureRepo(handling, ok)
  /\ Transmit
  /\ UNCHANGED registry

\* the clone is on the repository's default branch, the base of the task
BaseBranch == "main"

\* generateBranchName(...)
TaskBranch == "claude/task"

\* simpleGit(repoDir).checkoutLocalBranch(branchName)
checkoutLocalBranch(h) == [h EXCEPT !.branch = TaskBranch]

\* await gitManager.createBranch(...)
CreateBranch(ok) ==
  /\ handling.pc = "createBranch"
  /\ handling' =
       IF ok
       THEN At(streamChunk(checkoutLocalBranch(
                             Ran(handling, "createBranch", TRUE)),
                           "Branch created"), "spawn")
       ELSE Caught(handling, "createBranch")
  /\ Transmit
  /\ UNCHANGED registry

\* ClaudeRunner.run: spawn(); a child that cannot be spawned emits 'error'
\* and the promise rejects
SpawnFailure == "Failed to spawn"

\* the tree holds two copies of ClaudeRunner: the file the entry point
\* imports as ./claude/ClaudeRunner, and an unnamed one
Runners == {"claude/ClaudeRunner.ts", "part_003"}

\* the args array of run(): the named copy pushes the permission flag only
\* `if (autonomous)`, the unnamed copy always
Args(runner, autonomous, prompt) ==
  (IF runner = "part_003" \/ autonomous
   THEN <<"--dangerously-skip-permissions">>
   ELSE <<>>) \o <<"-p", prompt>>

\* the options the handlers pass to run(): handleTaskStart passes
\* autonomous: true and prompt: msg.context, handleChatMessage passes
\* prompt: msg.text and no autonomous, which defaults to false
Autonomous(msg) == msg.type = "task_start"

Prompt(msg) == IF msg.type = "task_start" THEN msg.context ELSE msg.text

\* spawn(this.claudeBin, args, ...)
spawn(h, runner) ==
  IF track = "spawned"
  THEN [h EXCEPT !.args = Args(runner, Autonomous(h.msg), Prompt(h.msg))]
  ELSE h

Spawn(ok) ==
  /\ handling.pc = "spawn"
  /\ \E runner \in Runners :
       LET h == spawn(handling, runner)
       IN handling' =
            IF ok
            THEN At(h, "running")
            ELSE At(sendError(Ran(h, "spawn", FALSE), SpawnFailure),
                    "returned")
  /\ Transmit
  /\ UNCHANGED registry

\* a 'data' event of the child's stdout or stderr: onChunk(chunk)
ChunkText(n) == String(n)

ToolChunk ==
  /\ handling.pc = "running"
  /\ handling.chunks < MaxChunks
  /\ handling' =
       streamChunk([handling EXCEPT !.chunks = handling.chunks + 1],
                   ChunkText(handling.chunks + 1))
  /\ Transmit
  /\ UNCHANGED registry

\* mutant: stream_end is sent only after a clean exit
chatAfterRunCleanOnly(h, exitCode) ==
  IF exitCode = 0
  THEN At(send(h, [type |-> "stream_end", sessionId |-> h.msg.sessionId]),
          "returned")
  ELSE At(h, "returned")

\* handleChatMessage after run() resolved
chatAfterRun(h, exitCode) ==
  At(send(h, [type |-> "stream_end", sessionId |-> h.msg.sessionId]),
     "returned")

\* handleTaskStart after run() resolved, up to git.status()
taskAfterRun(h, exitCode) ==
  At(streamChunk(h, "Committing and pushing changes"), "status")

\* the child's 'close' event: run() resolves with the exit code, which no
\* caller reads; modified is what the tool left in the working tree
ToolExit(exitCode, modified) ==
  /\ handling.pc = "running"
  /\ LET h == Ran([handling EXCEPT !.modified = modified], "run",
                  exitCode = 0)
     IN handling' = IF handling.msg.type = "chat_message"
                    THEN chatAfterRun(h, exitCode)
                    ELSE taskAfterRun(h, exitCode)
  /\ Transmit
  /\ UNCHANGED registry

NoChanges == "No changes to commit"

\* mutant: an empty status is not an error
statusIsEmptyIgnored(h) == FALSE

\* status.files.length === 0
statusIsEmpty(h) == ~h.modified

\* GitManager.commitAndPush: the await at h.pc settles
commitAndPush(h, ok) ==
  IF ~ok
  THEN Caught(h, h.pc)
  ELSE IF h.pc = "status"
  THEN IF statusIsEmpty(h)
       THEN At(sendError(Ran(h, "status", TRUE), NoChanges), "returned")
       ELSE At(Ran(h, "status", TRUE), "add")
  ELSE IF h.pc = "add"
  THEN At(Ran(h, "add", TRUE), "commit")
  ELSE IF h.pc = "commit"
  THEN At(Ran(h, "commit", TRUE), "push")
  ELSE At(streamChunk(Ran(h, "push", TRUE), "Opening pull request"),
          "createPullRequest")

CommitAndPush(ok) ==
  /\ handling.pc \in {"status", "add", "commit", "push"}
  /\ handling' = commitAndPush(handling, ok)
  /\ Transmit
  /\ UNCHANGED registry

\* mutant: the pull request is opened against the default branch
pullRequestToDefault(h) ==
  [h EXCEPT !.pr = Append(h.pr, [head |-> h.branch, base |-> BaseBranch])]

\* createPullRequest({..., head: branchName, base: msg.baseBranch}); the
\* working copy is on branchName since createBranch
pullRequest(h) ==
  [h EXCEPT !.pr = Append(h.pr, [head |-> TaskBranch,
                                 base |-> h.msg.baseBranch])]

\* await githubClient.createPullRequest(...), then relay.send(done)
CreatePullRequest(ok) ==
  /\ handling.pc = "createPullRequest"
  /\ handling' =
       IF ok
       THEN At(send(Ran(pullRequest(handling), "createPullRequest", TRUE),
                    [type |-> "task_done",
                     sessionId |-> handling.msg.sessionId]), "returned")
       ELSE Caught(handling, "createPullRequest")
  /\ Transmit
  /\ UNCHANGED registry

InitAgent == InitRegistry /\ track = "agent"

\* main(): relay.connect() once; frames are dispatched while the client
\* reconnects on its own
NextAgent ==
  \/ Connect
  \/ \E w \in WebSockets : SocketOpen(w)
  \/ \E w \in WebSockets : SocketClose(w)
  \/ \E t \in relay.timeouts : ReconnectFire(t)
  \/ \E msg \in RequestInputs : Dispatch(msg)
  \/ \E ok \in BOOLEAN : EnsureRepo(ok)
  \/ \E ok \in BOOLEAN : CreateBranch(ok)
  \/ \E ok \in BOOLEAN : Spawn(ok)
  \/ ToolChunk
  \/ \E exitCode \in ExitCodes, modified \in BOOLEAN :
       ToolExit(exitCode, modified)
  \/ \E ok \in BOOLEAN : CommitAndPush(ok)
  \/ \E ok \in BOOLEAN : CreatePullRequest(ok)

SpecAgent == InitAgent /\ [][NextAgent]_vars

\* ---- vocabulary of the handler properties ---------------------------------
\* the frames relay.send was called with, and those it wrote to the socket
Passed == [i \in 1 .. Len(handling.sends) |-> handling.sends[i].msg]

Written ==
  LET w == SelectSeq(handling.sends, LAMBDA c : c.result)
  IN [i \in 1 .. Len(w) |-> w[i].msg]

OfType(frames, type) == SelectSeq(frames, LAMBDA m : m.type = type)

StepsRun == {handling.steps[i].step : i \in 1 .. Len(handling.steps)}

StepOk(step) ==
  \E i \in 1 .. Len(handling.steps) :
    handling.steps[i].step = step /\ handling.steps[i].ok

Finished == handling.pc \in {"returned", "rejected"}

\* the tool of a task_start exited and left the working tree unmodified
UnmodifiedTask ==
  /\ handling.msg.type = "task_start"
  /\ "run" \in StepsRun
  /\ ~handling.modified

\* the chunk frames of the first n 'data' events, in their order
ChunkFrames(n) ==
  [i \in 1 .. n |-> [type |-> "stream_chunk", sessionId |-> SessionId,
                     text |-> ChunkText(i)]]

\* the number of the 'data' event a chunk frame carries
ChunkNumber(frame) ==
  CHOOSE n \in 1 .. MaxChunks : ChunkText(n) = frame.text

InOrder(frames) ==
  \A i \in 1 .. Len(frames), j \in 1 .. Len(frames) :
    i < j => ChunkNumber(frames[i]) < ChunkNumber(frames[j])

\* ---- C16 -------------------------------------------------------------------
\* C16 as stated: in a task whose tool exited leaving the working tree
\* unmodified nothing is staged, committed, pushed or opened as a pull
\* request, no task_done is sent, and once the handler has returned exactly
\* one error was sent, "No changes to commit".
C16_AsStated ==
  UnmodifiedTask =>
    /\ StepsRun \cap {"add", "commit", "push", "createPullRequest"} = {}
    /\ OfType(Written, "task_done") = <<>>
    /\ Finished =>
         /\ Len(OfType(Written, "error")) = 1
         /\ OfType(Written, "error")[1].message = NoChanges

\* C16 (amended): in such a task nothing is staged, committed, pushed or
\* opened as a pull request and no task_done is passed to relay.send; once
\* the handler has returned, exactly one error was passed to relay.send,
\* which is "No changes to commit" if git status itself succeeded, and it
\* was written to the relay only if the socket was open at that moment.
C16_NoChangesNoPullRequest ==
  UnmodifiedTask =>
    /\ StepsRun \cap {"add", "commit", "push", "createPullRequest"} = {}
    /\ OfType(Passed, "task_done") = <<>>
    /\ Finished =>
         /\ Len(OfType(Passed, "error")) = 1
         /\ StepOk("status") => OfType(Passed, "error")[1].message = NoChanges
         /\ Len(OfType(Written, "error")) <= 1

\* the error of an unmodified tree reached the relay
C16_Witness ==
  /\ UnmodifiedTask
  /\ Finished
  /\ StepOk("status")
  /\ Len(OfType(Written, "error")) = 1
  /\ OfType(Written, "error")[1].message = NoChanges

\* ---- C17 -------------------------------------------------------------------
\* C17: once the handler of a task_start has finished, the agent has sent
\* exactly one task_done or exactly one error, not both, and no step ran
\* after a step that failed.
C17_OneOutcome ==
  handling.msg.type = "task_start" =>
    /\ \A i \in 1 .. Len(handling.steps) - 1 : handling.steps[i].ok
    /\ Finished =>
         Len(OfType(Written, "task_done")) + Len(OfType(Written, "error")) = 1

\* ---- C18 -------------------------------------------------------------------
\* C18 as stated: once the handler of a chat_message whose tool was spawned
\* has returned, exactly one stream_end was sent, after every stream_chunk
\* sent, and the chunks sent are in the order of their production; if the
\* spawn failed, exactly one error was sent and no stream_end.
C18_AsStated ==
  (handling.msg.type = "chat_message" /\ Finished) =>
    /\ "run" \in StepsRun =>
         /\ Len(OfType(Written, "stream_end")) = 1
         /\ Written[Len(Written)].type = "stream_end"
         /\ InOrder(OfType(Written, "stream_chunk"))
    /\ "spawn" \in StepsRun =>
         /\ Len(OfType(Written, "error")) = 1
         /\ OfType(Written, "stream_end") = <<>>

\* C18 (amended): the handler of a chat_message passes to relay.send the
\* chunks in the order of their production and, when the process has
\* exited, whatever its exit code, one stream_end after them; if the spawn
\* failed it passes one error "Failed to spawn" and no stream_end.  Each of
\* these frames is written only if the socket is open at that moment, so
\* the frames written are a subsequence of them.
C18_ChunksThenEnd ==
  handling.msg.type = "chat_message" =>
    /\ handling.pc = "running" => Passed = ChunkFrames(handling.chunks)
    /\ "run" \in StepsRun =>
         Passed = ChunkFrames(handling.chunks)
                    \o <<[type |-> "stream_end", sessionId |-> SessionId]>>
    /\ "spawn" \in StepsRun =>
         Passed = <<[type |-> "error", sessionId |-> SessionId,
                    message |-> SpawnFailure]>>
    /\ Len(OfType(Written, "stream_end")) <= 1

\* the tool printed chunks and exited non-zero; every frame was written
C18_Witness ==
  /\ handling.msg.type = "chat_message"
  /\ Finished
  /\ handling.chunks = MaxChunks
  /\ "run" \in StepsRun /\ ~StepOk("run")
  /\ Written = Passed
  /\ Len(OfType(Written, "stream_end")) = 1

\* ==== packages/agent: the frames the client writes ========================
\* chat requests that need no repository
ChatInputs ==
  {msg \in RequestInputs : msg.type = "chat_message" /\ msg.repoFullName = ""}

InitWire == InitRegistry /\ track = "wire"

\* the client and the handler of one chat_message
NextWire ==
  \/ Connect
  \/ \E w \in WebSockets : SocketOpen(w)
  \/ \E w \in WebSockets : SocketClose(w)
  \/ \E t \in relay.timeouts : ReconnectFire(t)
  \/ \E msg \in ChatInputs : Dispatch(msg)
  \/ \E ok \in BOOLEAN : Spawn(ok)
  \/ ToolChunk
  \/ \E exitCode \in ExitCodes, modified \in BOOLEAN :
       ToolExit(exitCode, modified)

SpecWire == InitWire /\ [][NextWire]_vars

\* the frames written that a send() call of a handler passed
HandlerFramesWritten ==
  LET w == SelectSeq(relay.wire,
                     LAMBDA e : e.msg.type \notin {"agent_register", "ping"})
  IN [i \in 1 .. Len(w) |-> w[i].msg]

\* the send() calls of the step taken and the frames it wrote
NewCalls ==
  SubSeq(handling'.sends, Len(handling.sends) + 1, Len(handling'.sends))

NewWire == SubSeq(relay'.wire, Len(relay.wire) + 1, Len(relay'.wire))

\* ---- C21 -------------------------------------------------------------------
\* C21: a send() call returns true exactly if the current socket is open,
\* and then the frame is written to that socket; a call that returns false
\* writes nothing, and its frame is not written later either: at every
\* moment the handler frames written are those of the calls that returned
\* true, in the order of the calls.
C21_SendWritesIffOpen ==
  /\ [](HandlerFramesWritten = Written)
  /\ [][(handling' # handling) =>
          /\ \A i \in 1 .. Len(NewCalls) :
               NewCalls[i].result = isConnected(relay)
          /\ NewWire =
               IF isConnected(relay)
               THEN [i \in 1 .. Len(NewCalls) |->
                       [ws |-> relay.ws, msg |-> NewCalls[i].msg]]
               ELSE <<>>]_vars

\* a call was refused, and after a reconnect a later one was written
C21_Witness ==
  /\ \E i \in 1 .. Len(handling.sends), j \in 1 .. Len(handling.sends) :
       i < j /\ ~handling.sends[i].result /\ handling.sends[j].result
  /\ \E k \in 1 .. Len(relay.wire) :
       relay.wire[k].ws = 2 /\ relay.wire[k].msg.type = "stream_end"

\* ---- C22 -------------------------------------------------------------------
\* C22: unless disconnect() was called, a client that has connected once
\* always has a socket that is not closed or a pending reconnect timer;
\* the timer a close sets does fire (as long as the run may create another
\* socket), and when it goes without a disconnect() a new WebSocket is
\* created - after every close again.
C22_ReconnectsForever ==
  /\ []((Len(relay.readyState) > 0 /\ ~relay.isShuttingDown) =>
          \/ relay.ws # null /\ relay.readyState[relay.ws] # "CLOSED"
          \/ relay.timeouts # {})
  /\ [][\A t \in relay.timeouts :
          (t \notin relay'.timeouts /\ ~relay'.isShuttingDown) =>
            /\ Len(relay'.readyState) = Len(relay.readyState) + 1
            /\ relay'.readyState[relay'.ws] = "CONNECTING"]_vars
  /\ \A t \in 1 .. MaxWebSockets :
       (t \in relay.timeouts /\ ~relay.isShuttingDown) ~>
         \/ t \notin relay.timeouts
         \/ relay.isShuttingDown
         \/ Len(relay.readyState) = MaxWebSockets

\* two sockets closed in turn and each time the timer made the next one
C22_Witness ==
  /\ Len(relay.readyState) = 3
  /\ relay.readyState[1] = "CLOSED"
  /\ relay.readyState[2] = "CLOSED"
  /\ relay.timeoutCount = 2
  /\ relay.timeouts = {}
  /\ ~relay.isShuttingDown

\* ---- C23 -------------------------------------------------------------------
\* C23: disconnect() leaves no reconnect timer pending and no heartbeat
\* running, the client is not connected and none of its sockets is
\* connecting or open; afterwards no timer set by a close event creates a
\* WebSocket: only a connect() call does.
C23_DisconnectIsFinal ==
  /\ [][Disconnect =>
          /\ relay'.timeouts = {}
          /\ relay'.intervals = {}
          /\ ~isConnected(relay')
          /\ \A w \in WebSockets :
               relay'.readyState[w] \notin {"CONNECTING", "OPEN"}]_vars
  /\ [][(relay.isShuttingDown
           /\ Len(relay'.readyState) > Len(relay.readyState)) =>
          Connect]_vars

\* ==== packages/agent: RelayClient.onMessage and the 'message' listener =====
Handlers == {"h1", "h2", "h3"}

\* how a handler ends for the frame: it returns, throws, or returns a
\* promise that rejects
Behaviours == [Handlers -> {"returns", "throws", "rejects"}]

Frames == {Malformed, [type |-> "pong", sessionId |-> SessionId]}

InSeq(x, seq) == \E i \in 1 .. Len(seq) : seq[i] = x

\* Set.add: a handler already in the Set keeps its place
SetAdd(seq, x) == IF InSeq(x, seq) THEN seq ELSE Append(seq, x)

SetDelete(seq, x) == SelectSeq(seq, LAMBDA y : y # x)

\* onMessage(handler)
OnMessage(handler) ==
  /\ relay' = [relay EXCEPT !.handlers = SetAdd(relay.handlers, handler)]
  /\ UNCHANGED <<registry, handling>>

\* the function onMessage(handler) returned
Unsubscribe(handler) ==
  /\ InSeq(handler, relay.handlers)
  /\ relay' = [relay EXCEPT !.handlers = SetDelete(relay.handlers, handler)]
  /\ UNCHANGED <<registry, handling>>

\* for (const handler of this.handlers) void Promise.resolve(handler(msg)):
\* a throw of handler(msg) leaves the loop
RECURSIVE Called(_, _)
Called(seq, behaviour) ==
  IF seq = <<>>
  THEN <<>>
  ELSE IF behaviour[Head(seq)] = "throws"
  THEN <<Head(seq)>>
  ELSE <<Head(seq)>> \o Called(Tail(seq), behaviour)

\* ws.on('message') of WebSocket w
Message(w, data, behaviour) ==
  /\ w \in WebSockets
  /\ relay.readyState[w] = "OPEN"
  /\ relay' = [relay EXCEPT !.invoked =
                  IF data = Malformed
                  THEN <<>>
                  ELSE Called(relay.handlers, behaviour)]
  /\ UNCHANGED <<registry, handling>>

InitHandlers == InitRegistry /\ track = "handlers"

NextHandlers ==
  \/ Connect
  \/ \E w \in WebSockets : SocketOpen(w)
  \/ \E handler \in Handlers : OnMessage(handler)
  \/ \E handler \in Handlers : Unsubscribe(handler)
  \/ \E w \in WebSockets, data \in Frames, behaviour \in Behaviours :
       Message(w, data, behaviour)

SpecHandlers == InitHandlers /\ [][NextHandlers]_vars

\* ---- C24 -------------------------------------------------------------------
\* C24: a frame that parses is passed to every registered handler, in the
\* order of registration, whichever of them throw or reject, and to no
\* handler that is not registered; an unparsable frame reaches no handler.
C24_EveryHandlerInvoked ==
  [][\A w \in WebSockets, data \in Frames, behaviour \in Behaviours :
       Message(w, data, behaviour) =>
         relay'.invoked = IF data = Malformed THEN <<>> ELSE relay.handlers]_vars

\* ---- C25 -------------------------------------------------------------------
\* C25: when the handler of a task_start has returned, after task_done or
\* after error, the working copy is checked out on the base branch.
C25_BackOnBaseBranch ==
  (/\ handling.msg.type = "task_start"
   /\ handling.pc = "returned")
  => handling.branch = BaseBranch

\* ==== packages/agent: two requests in flight ================================
\* relay.onMessage((msg) => { void dispatch(msg, ...) }): the listener does
\* not wait for the handler of an earlier frame
PeerInputs ==
  {[type |-> "chat_message", sessionId |-> "u2", text |-> "hi",
    repoFullName |-> "o/r"],
   [type |-> "task_start", sessionId |-> "u2", context |-> "do it",
    repoFullName |-> "o/r", baseBranch |-> "main"],
   [type |-> "task_start", sessionId |-> "u2", context |-> "do it",
    repoFullName |-> "o/q", baseBranch |-> "main"]}

\* the handler at the await h.pc, continued when that await settles
Resume(h, ok) ==
  IF h.pc = "ensureRepo"
  THEN ensureRepo(h, ok)
  ELSE IF h.pc = "createBranch"
  THEN IF ok THEN At(checkoutLocalBranch(h), "spawn")
       ELSE Caught(h, "createBranch")
  ELSE IF h.pc = "spawn"
  THEN IF ok THEN At(h, "running") ELSE Caught(h, "spawn")
  ELSE IF h.pc = "running"
  THEN IF h.msg.type = "chat_message"
       THEN chatAfterRun(h, IF ok THEN 0 ELSE 1)
       ELSE taskAfterRun(h, IF ok THEN 0 ELSE 1)
  ELSE IF h.pc \in {"status", "add", "commit", "push"}
  THEN commitAndPush(h, ok)
  ELSE At(h, "returned")

\* the second handler as a handler of its own, its tool having modified
\* the working tree or not
PeerHandling(modified) ==
  [InitHandling EXCEPT !.msg = handling.peer.msg, !.pc = handling.peer.pc,
                       !.modified = modified]

\* a frame arrives while the handler of an earlier one is suspended
PeerDispatch(msg) ==
  /\ handling.pc \notin {"idle", "returned", "rejected"}
  /\ handling.peer.pc = "idle"
  /\ isConnected(relay)
  /\ handling' = [handling EXCEPT !.peer =
                     [msg |-> msg, pc |-> Dispatched(msg).pc]]
  /\ UNCHANGED <<registry, relay>>

\* an await of the second handler settles
PeerStep(ok, modified) ==
  /\ handling.peer.pc \notin {"idle", "returned", "rejected"}
  /\ handling' = [handling EXCEPT !.peer.pc =
                     Resume(PeerHandling(modified), ok).pc]
  /\ UNCHANGED <<registry, relay>>

InitPeer == InitRegistry /\ track = "peer"

NextPeer ==
  \/ Connect
  \/ \E w \in WebSockets : SocketOpen(w)
  \/ \E msg \in RequestInputs : Dispatch(msg)
  \/ \E ok \in BOOLEAN : EnsureRepo(ok)
  \/ \E ok \in BOOLEAN : CreateBranch(ok)
  \/ \E ok \in BOOLEAN : Spawn(ok)
  \/ \E exitCode \in ExitCodes, modified \in BOOLEAN :
       ToolExit(exitCode, modified)
  \/ \E ok \in BOOLEAN : CommitAndPush(ok)
  \/ \E ok \in BOOLEAN : CreatePullRequest(ok)
  \/ \E msg \in PeerInputs : PeerDispatch(msg)
  \/ \E ok \in BOOLEAN, modified \in BOOLEAN : PeerStep(ok, modified)

SpecPeer == InitPeer /\ [][NextPeer]_vars

\* the awaits of a handler that read or write the working copy
GitSection ==
  {"ensureRepo", "createBranch", "status", "add", "commit", "push"}

\* ---- C26 -------------------------------------------------------------------
\* C26: two requests for the same repository are never both inside the
\* clone/pull/branch/commit/push section of its working copy.
C26_OneRequestPerRepository ==
  ~(/\ handling.pc \in GitSection
    /\ handling.peer.pc \in GitSection
    /\ handling.peer.msg.repoFullName = handling.msg.repoFullName)

\* ==== packages/relay: a task_done for a mobile that is away ================
\* handleTaskStart sends one task_done for the task of session x
TaskDoneFrame(x) == [type |-> "task_done", sessionId |-> x]

\* the sockets of the mobile of session x: the pairing socket its token was
\* issued on and the sockets opened with ?sessionToken=x
MobileSockets(x) ==
  {s \in Sockets :
     \/ socks[s].kind = "mobile" /\ socks[s].token = x
     \/ MapHas(issuedOn, x) /\ issuedOn[x] = s}

MobileAway(x) == \A s \in MobileSockets(x) : ~IsOpen(s)

\* the agent has sent its task_done for session x
Emitted(x) ==
  \E s \in Sockets : \E i \in 1 .. Len(socks[s].frames) :
    /\ socks[s].frames[i].dir = "read"
    /\ socks[s].frames[i].msg = TaskDoneFrame(x)

Recorded(ss, s, dir, msg, away) ==
  [ss EXCEPT ![s].frames =
     Append(@, [dir |-> dir, msg |-> msg, away |-> away])]

\* the agent listener's forwarding branch for the task_done of session x
TaskDone(s, x) ==
  /\ CanReceive(s, "agent")
  /\ ~Emitted(x)
  /\ LET msg == TaskDoneFrame(x)
         out == Delivered(AgentForward(msg))
         read == Recorded(socks, s, "read", msg, MobileAway(x))
     IN socks' = IF out = <<>>
                 THEN read
                 ELSE Recorded(read, out[1][1], "written", msg, MobileAway(x))
  /\ UNCHANGED <<tables, uuidCount, track, agent, history>>

InitDelivered == InitRegistry /\ track = "delivered"

NextDelivered ==
  \/ Next
  \/ \E s \in Sockets, x \in IssuedTokens : TaskDone(s, x)

SpecDelivered == InitDelivered /\ [][NextDelivered]_vars

\* every handler of the relay runs when its event is there
SpecDeliveredLive == SpecDelivered /\ WF_vars(NextDelivered)

\* the relay read the task_done of session x while every socket of the
\* mobile was closed
ReadWhileAway(x) ==
  \E s \in Sockets : \E i \in 1 .. Len(socks[s].frames) :
    /\ socks[s].frames[i].dir = "read"
    /\ socks[s].frames[i].msg = TaskDoneFrame(x)
    /\ socks[s].frames[i].away

Reconnected(x) ==
  \E s \in Sockets : CanReceive(s, "mobile") /\ socks[s].token = x

TaskDoneWritten(x) ==
  \E s \in Sockets : \E i \in 1 .. Len(socks[s].frames) :
    /\ socks[s].frames[i].dir = "written"
    /\ socks[s].frames[i].msg = TaskDoneFrame(x)

\* ---- C27 -------------------------------------------------------------------
\* C27: a task_done for session x that the agent sent while the mobile's
\* socket was closed is written to the mobile once it has reconnected with
\* ?sessionToken=x, unless the mobile goes away again first.
C27_TaskDoneAfterReconnect ==
  \A x \in {UuidPool[i] : i \in 1 .. MaxSessions} :
    (ReadWhileAway(x) /\ Reconnected(x))
      ~> (TaskDoneWritten(x) \/ ~Reconnected(x))

\* ---- C28 -------------------------------------------------------------------
\* a query string without type, with a type other than agent or mobile, or
\* with type=agent and no agentToken
Unclassified(url) ==
  \/ url.type \notin {"agent", "mobile"}
  \/ url.type = "agent" /\ url.agentToken = ""

\* C28: an upgrade whose query string is unclassified is closed with code
\* 4000: no step that accepts a socket or changes a table is the fetch of
\* such a request.
C28_UnclassifiedClosed ==
  [][(socks' # socks \/ tables' # tables) =>
       \A url \in FetchInputs : Unclassified(url) => ~Fetch(url)]_vars

\* ---- C29 -------------------------------------------------------------------
\* s is the socket a mobile opened with the token it was given on a pairing
\* socket that is closed by now, and it has opened no other with it
ReconnectedAfterPairing(s) ==
  /\ CanReceive(s, "mobile")
  /\ MapHas(issuedOn, socks[s].token)
  /\ ~IsOpen(issuedOn[socks[s].token])
  /\ \A x \in Sockets :
       (socks[x].kind = "mobile" /\ socks[x].token = socks[s].token) => x = s

\* the agent frames that carry sessionId u
AgentFramesFor(u) ==
  {msg \in (AgentInputs \ {Malformed}) \cup {TaskDoneFrame(u)} :
     HasField(msg, "sessionId") /\ msg.sessionId = u}

\* C29: on the socket a mobile opens with ?sessionToken=U after it closed the
\* pairing socket that gave it U, the session still exists; while its
\* agent is registered, every frame of the mobile is forwarded to the
\* agent's socket with sessionId U, and every agent frame with sessionId U
\* is written to that socket and to no other.
C29_SessionSurvivesPairingSocket ==
  \A s \in Sockets :
    ReconnectedAfterPairing(s) =>
      LET u == socks[s].token IN
      /\ MapHas(sessions, u)
      /\ \A msg \in AgentFramesFor(u) :
           Delivered(AgentForward(msg)) = <<<<s, msg>>>>
      /\ MapHas(agents, sessions[u]) =>
           \A msg \in MobileInputs(u) \ {Malformed} :
             /\ Stamp(msg, u).sessionId = u
             /\ MobileReply(s, u, msg) =
                  <<<<agents[sessions[u]].ws, Stamp(msg, u)>>>>
             /\ Delivered(MobileReply(s, u, msg)) = MobileReply(s, u, msg)

C29_Witness ==
  \E s \in Sockets :
    /\ ReconnectedAfterPairing(s)
    /\ MapHas(sessions, socks[s].token)
    /\ MapHas(agents, sessions[socks[s].token])
    /\ AgentFramesFor(socks[s].token) # {}

\* ==== packages/agent: the first frame of every connection =================
\* the client with its heartbeat and a chat request in flight; of the frames
\* written, the first one of every WebSocket is recorded
InitFirst == InitRegistry /\ track = "first"

NextFirst ==
  \/ Connect
  \/ Disconnect
  \/ \E w \in WebSockets : SocketOpen(w)
  \/ \E w \in WebSockets : SocketClose(w)
  \/ \E t \in relay.timeouts : ReconnectFire(t)
  \/ \E t \in relay.intervals : HeartbeatTick(t)
  \/ \E msg \in ChatInputs : Dispatch(msg)
  \/ \E ok \in BOOLEAN : Spawn(ok)
  \/ ToolChunk
  \/ \E exitCode \in ExitCodes, modified \in BOOLEAN :
       ToolExit(exitCode, modified)

SpecFirst == InitFirst /\ [][NextFirst]_vars

\* ---- C30 -------------------------------------------------------------------
\* C30: on every WebSocket the client creates, the first frame written is
\* agent_register with the client's agentToken: no ping of a heartbeat and
\* no frame of a request in flight is written before it.
C30_RegisterFirst ==
  \A i \in 1 .. Len(relay.wire) : relay.wire[i].msg = AgentRegisterMessage

\* a reconnect has registered while a heartbeat was due and a request that
\* had a frame refused was still running
C30_Witness ==
  /\ \E i \in 1 .. Len(relay.wire) :
       relay.wire[i].ws > 1 /\ relay.wire[i].msg = AgentRegisterMessage
  /\ relay.intervals # {}
  /\ handling.pc = "running"
  /\ \E j \in 1 .. Len(handling.sends) : ~handling.sends[j].result

\* ==== packages/agent: the arguments of the tool ============================
InitSpawned == InitRegistry /\ track = "spawned"

SpecSpawned == InitSpawned /\ [][NextAgent]_vars

\* ---- C31 -------------------------------------------------------------------
\* C31: whenever the tool has been spawned, for a chat_message or for a
\* task_start, its arguments are --dangerously-skip-permissions, -p and the
\* prompt, in that order.
C31_SkipPermissionsAlways ==
  handling.args # <<>> =>
    handling.args =
      <<"--dangerously-skip-permissions", "-p", Prompt(handling.msg)>>

\* ---- C32 -------------------------------------------------------------------
\* Math.random() on a grid that comes close to both ends of [0, 1)
FineDenom == 1000

\* the string of the six decimal digits of n, leading zeros kept
SixDigits(n) ==
  DigitChar((n \div 100000) % 10) \o DigitChar((n \div 10000) % 10)
    \o DigitChar((n \div 1000) % 10) \o DigitChar((n \div 100) % 10)
    \o DigitChar((n \div 10) % 10) \o DigitChar(n % 10)

\* Math.floor(100_000 + Math.random() * 900_000) for the draws k / denom
Floors(denom) == {100000 + ((k * 900000) \div denom) : k \in 0 .. (denom - 1)}

\* str is made of exactly six decimal digits: those of one of the numbers
\* ns
IsSixDigits(str, ns) ==
  /\ Len(str) = 6
  /\ \E n \in ns : n \in 0 .. 999999 /\ str = SixDigits(n)

\* C32: the pairingCode of every register_ok, those already sent and those
\* any open agent socket can be sent next, is a string of exactly six
\* decimal digits, for every value Math.random() takes.
C32_SixDecimalDigits ==
  /\ \A t \in DOMAIN agents :
       IsSixDigits(agents[t].pairingCode, Floors(RandDenom))
  /\ \A s \in Sockets, k \in RandomDraws :
       CanReceive(s, "agent") =>
         LET out == Delivered(AgentRegisterReply(s, generatePairingCode(k)))
         IN /\ Len(out) = 1
            /\ out[1][2].type = "register_ok"
            /\ IsSixDigits(out[1][2].pairingCode, Floors(RandDenom))
  /\ socks = <<>> =>
       \A k \in 0 .. (FineDenom - 1) :
         IsSixDigits(pairingCodeAt(k, FineDenom),
                     {100000 + ((k * 900000) \div FineDenom)})

\* an agent is registered with the code of the largest draw
C32_Witness ==
  \E t \in DOMAIN agents :
    /\ agents[t].pairingCode = generatePairingCode(RandDenom - 1)
    /\ agents[t].pairingCode # "100000"
    /\ IsOpen(agents[t].ws)

\* ==== packages/agent: the pipeline of a task ================================
\* task_start requests, one of them against a branch that is not the
\* default branch of the clone
TaskInputs ==
  {msg \in RequestInputs : msg.type = "task_start"}
  \cup {[type |-> "task_start", sessionId |-> SessionId, context |-> "do it",
         repoFullName |-> "o/r", baseBranch |-> "develop"]}

InitTask == InitRegistry /\ track = "task"

NextTask ==
  \/ Connect
  \/ \E w \in WebSockets : SocketOpen(w)
  \/ \E w \in WebSockets : SocketClose(w)
  \/ \E t \in relay.timeouts : ReconnectFire(t)
  \/ \E msg \in TaskInputs : Dispatch(msg)
  \/ \E ok \in BOOLEAN : EnsureRepo(ok)
  \/ \E ok \in BOOLEAN : CreateBranch(ok)
  \/ \E ok \in BOOLEAN : Spawn(ok)
  \/ ToolChunk
  \/ \E exitCode \in ExitCodes, modified \in BOOLEAN :
       ToolExit(exitCode, modified)
  \/ \E ok \in BOOLEAN : CommitAndPush(ok)
  \/ \E ok \in BOOLEAN : CreatePullRequest(ok)

SpecTask == InitTask /\ [][NextTask]_vars

\* the awaits of handleTaskStart in the order of its text
Pipeline ==
  <<"ensureRepo", "generateBranchName", "createBranch", "run", "status",
    "add", "commit", "push", "createPullRequest">>

StepNames == [i \in 1 .. Len(handling.steps) |-> handling.steps[i].step]

\* ---- C33 -------------------------------------------------------------------
\* C33: the steps of a task run in the order refresh, branch, tool, commit
\* and push, pull request, each after the one before it has succeeded (the
\* tool: has exited); the push is made with the task branch checked out; a
\* pull request is opened once, from the task branch against the
\* requested baseBranch; task_done is passed to relay.send at most once,
\* as the last frame, and only after the pull request was created.
C33_PipelineInOrder ==
  handling.msg.type = "task_start" =>
    /\ \/ StepNames = SubSeq(Pipeline, 1, Len(StepNames))
       \/ StepNames = SubSeq(Pipeline, 1, 3) \o <<"spawn">>
    /\ \A i \in 1 .. Len(handling.steps) - 1 :
         handling.steps[i].ok \/ handling.steps[i].step = "run"
    /\ StepOk("push") => handling.branch = TaskBranch
    /\ Len(handling.pr) <= 1
    /\ handling.pr # <<>> =>
         /\ StepOk("createPullRequest")
         /\ handling.pr[1] =
              [head |-> TaskBranch, base |-> handling.msg.baseBranch]
    /\ Len(OfType(Passed, "task_done")) <= 1
    /\ OfType(Passed, "task_done") # <<>> =>
         /\ handling.pr # <<>>
         /\ Passed[Len(Passed)].type = "task_done"

\* a task against another branch than the default one has sent task_done
C33_Witness ==
  /\ handling.msg.type = "task_start"
  /\ handling.msg.baseBranch # BaseBranch
  /\ Finished
  /\ StepNames = Pipeline
  /\ Len(OfType(Written, "task_done")) = 1

\* ---- C34 -------------------------------------------------------------------
\* C34: in a task whose tool exited with a non-zero code nothing is
\* committed, pushed or opened as a pull request, and no task_done is sent.
C34_CleanExitOnly ==
  (/\ handling.msg.type = "task_start"
   /\ "run" \in StepsRun
   /\ ~StepOk("run"))
  => /\ StepsRun \cap {"commit", "push", "createPullRequest"} = {}
     /\ OfType(Passed, "task_done") = <<>>

\* ==== packages/relay: an agent outage under a connected mobile ============
InitOutage == InitRegistry /\ track = "outage"

\* the relay while no mobile closes a socket
NextOutage ==
  \/ \E url \in FetchInputs : Fetch(url)
  \/ \E s \in Sockets, k \in RandomDraws : AgentRegister(s, k)
  \/ \E s \in Sockets :
       \E msg \in MobileInputs(socks[s].token) : MobileMessage(s, msg)
  \/ \E s \in Sockets, msg \in PairingInputs : PairingMessage(s, msg)
  \/ \E s \in Sockets : socks[s].kind = "agent" /\ Close(s)

SpecOutage == InitOutage /\ [][NextOutage]_vars

C36_OwnSessionsOnly ==
  \A s \in Sockets :
    CanReceive(s, "agent") =>
      \A msg \in AgentInputs :
        (/\ Delivered(AgentForward(msg)) # <<>>
         /\ MapHas(sessions, msg.sessionId))
          => sessions[msg.sessionId] = socks[s].token

\* ==== packages/relay: a mobile with two sockets ============================
InitTwice == InitRegistry /\ track = "twice"

SpecTwice == InitTwice /\ [][Next]_vars

\* ---- C37 -------------------------------------------------------------------
\* C37: when a mobile socket closes while a later socket opened with the
\* same sessionToken is open and is the one mobileConnections names, the
\* close removes neither the session nor that mapping.
C37_EarlierCloseKeepsSession ==
  [][(sessions' # sessions \/ mobileConnections' # mobileConnections) =>
       \A s \in Sockets, n \in Sockets :
         (/\ s < n
          /\ CanReceive(s, "mobile")
          /\ CanReceive(n, "mobile")
          /\ socks[n].token = socks[s].token
          /\ MapHas(sessions, socks[s].token)
          /\ MapHas(mobileConnections, socks[s].token)
          /\ mobileConnections[socks[s].token] = n)
         => ~Close(s)]_vars

\* ---- C38 -------------------------------------------------------------------
\* C38: every code the pairing-code table maps, it maps to an agent that
\* has an entry whose pairingCode is that code, so the session a
\* mobile_connect with it creates is bound to an agent that is registered
\* at that moment.
C38_CodesOfRegisteredAgents ==
  \A c \in DOMAIN pairingCodes :
    LET t == pairingCodes[c]
    IN /\ MapHas(agents, t)
       /\ agents[t].pairingCode = c
       /\ MapHas(agents, PairSessions(randomUUID, t)[randomUUID])

\* after one pairing, a code of a registered agent can be redeemed on an
\* open pairing socket, while another agent's code has been used up
C38_Witness ==
  /\ uuidCount >= 1
  /\ \E c \in DOMAIN pairingCodes, s \in Sockets :
       /\ CanReceive(s, "pairing")
       /\ IsOpen(agents[pairingCodes[c]].ws)
  /\ \E t \in DOMAIN agents : ~MapHas(pairingCodes, agents[t].pairingCode)

\* ---- C39 -------------------------------------------------------------------
\* C39: once the handler of a chat_message has ended, by returning or by
\* rejecting, it has passed exactly one terminal frame to relay.send:
\* stream_end or error.
C39_OneTerminalFrame ==
  (handling.msg.type = "chat_message" /\ Finished) =>
    Len(OfType(Passed, "stream_end")) + Len(OfType(Passed, "error")) = 1

\* ==== apps/mobile: the store ===============================================
\* chatMessages.map(f)
MapSeq(seq, f(_)) == [i \in 1 .. Len(seq) |-> f(seq[i])]

\* reducer(state, action); text and logs are the sequences of the chunks
\* appended
reducer(state, action) ==
  IF action.type = "REPOS_LOADED"
  THEN [state EXCEPT !.repositories = action.repos, !.reposFetched = TRUE]
  ELSE IF action.type = "REPOS_FETCH_DONE"
  THEN [state EXCEPT !.reposFetched = TRUE]
  ELSE IF action.type = "CHAT_USER_MESSAGE"
  THEN [state EXCEPT !.chatMessages =
          Append(@, [id |-> action.id, role |-> "user",
                     text |-> action.text, isStreaming |-> FALSE])]
  ELSE IF action.type = "CHAT_ASSISTANT_START"
  THEN [state EXCEPT !.chatMessages =
          Append(@, [id |-> action.id, role |-> "assistant",
                     text |-> <<>>, isStreaming |-> TRUE])]
  ELSE IF action.type = "CHAT_ASSISTANT_CHUNK"
  THEN LET append(msg) ==
             IF msg.id = action.id
             THEN [msg EXCEPT !.text = @ \o action.chunk]
             ELSE msg
       IN [state EXCEPT !.chatMessages = MapSeq(@, append)]
  ELSE IF action.type = "CHAT_ASSISTANT_END"
  THEN LET end(msg) ==
             IF msg.id = action.id
             THEN [msg EXCEPT !.isStreaming = FALSE]
             ELSE msg
       IN [state EXCEPT !.chatMessages = MapSeq(@, end)]
  ELSE IF action.type = "TASK_STARTED"
  THEN [state EXCEPT !.task = [NoTask EXCEPT !.id = action.id]]
  ELSE IF action.type = "TASK_LOG_CHUNK"
  THEN IF state.task = NoTask
       THEN state
       ELSE [state EXCEPT !.task.logs = @ \o action.chunk]
  ELSE IF action.type = "TASK_DONE"
  THEN IF state.task = NoTask
       THEN state
       ELSE [state EXCEPT !.task.prUrl = action.prUrl,
                          !.task.prTitle = action.prTitle]
  ELSE IF action.type = "TASK_RESET"
  THEN [state EXCEPT !.task = NoTask]
  ELSE state

\* prUrl and prTitle of a task_done frame: those of the pull request the
\* agent created
PrUrl == "https://github.com/o/r/pull/1"

PrTitle == "Claude on Mobile: do it"

\* expo-crypto randomUUID(): an id no message or task of the store has
expoRandomUUID(state) == state.uuids + 1

\* AgentProvider.handleInbound(msg); the re-pairing after "Session expired"
\* opens another socket and leaves the messages as they are
handleInbound(state, msg) ==
  IF msg.type = "repo_list_result"
  THEN reducer(state, [type |-> "REPOS_LOADED", repos |-> msg.repos])
  ELSE IF msg.type = "stream_chunk"
  THEN LET id == expoRandomUUID(state)
           started ==
             IF state.streamingIdRef = NoId
             THEN reducer([state EXCEPT !.uuids = id, !.streamingIdRef = id],
                          [type |-> "CHAT_ASSISTANT_START", id |-> id])
             ELSE state
       IN IF state.task # NoTask
          THEN reducer(started, [type |-> "TASK_LOG_CHUNK",
                                 chunk |-> <<msg.text>>])
          ELSE reducer(started, [type |-> "CHAT_ASSISTANT_CHUNK",
                                 id |-> started.streamingIdRef,
                                 chunk |-> <<msg.text>>])
  ELSE IF msg.type = "stream_end"
  THEN IF state.streamingIdRef # NoId
       THEN [reducer(state, [type |-> "CHAT_ASSISTANT_END",
                             id |-> state.streamingIdRef])
               EXCEPT !.streamingIdRef = NoId]
       ELSE state
  ELSE IF msg.type = "task_done"
  THEN reducer(state, [type |-> "TASK_DONE", prUrl |-> PrUrl,
                       prTitle |-> PrTitle])
  ELSE IF msg.type = "error"
  THEN IF msg.message = SessionExpired
       THEN state
       ELSE LET fetched ==
                  IF ~state.reposFetched
                  THEN reducer(state, [type |-> "REPOS_FETCH_DONE"])
                  ELSE state
                errId == expoRandomUUID(state)
                start ==
                  reducer([fetched EXCEPT !.uuids = errId],
                          [type |-> "CHAT_ASSISTANT_START", id |-> errId])
                chunk ==
                  reducer(start, [type |-> "CHAT_ASSISTANT_CHUNK",
                                  id |-> errId,
                                  chunk |-> <<"Error: ", msg.message>>])
            IN reducer(chunk, [type |-> "CHAT_ASSISTANT_END", id |-> errId])
  ELSE state

\* the requests sendChat and startTask build for the selected repository
StoreInputs ==
  {[type |-> "chat_message", sessionId |-> SessionId, text |-> "hi",
    repoFullName |-> "o/r"],
   [type |-> "task_start", sessionId |-> SessionId, context |-> "do it",
    repoFullName |-> "o/r", baseBranch |-> "main"]}

\* sendChat(text): CHAT_USER_MESSAGE, then the frame, which the relay
\* forwards and the agent dispatches
sendChat(msg) ==
  /\ msg.type = "chat_message"
  /\ handling.pc = "idle"
  /\ isConnected(relay)
  /\ LET msgId == expoRandomUUID(handling.store)
     IN handling' =
          [Dispatched(msg) EXCEPT !.store =
             reducer([handling.store EXCEPT !.uuids = msgId],
                     [type |-> "CHAT_USER_MESSAGE", id |-> msgId,
                      text |-> <<msg.text>>])]
  /\ UNCHANGED <<registry, relay>>

\* startTask(context): TASK_STARTED, then the frame
startTask(msg) ==
  /\ msg.type = "task_start"
  /\ handling.pc = "idle"
  /\ isConnected(relay)
  /\ LET taskId == expoRandomUUID(handling.store)
     IN handling' =
          [Dispatched(msg) EXCEPT !.store =
             reducer([handling.store EXCEPT !.uuids = taskId],
                     [type |-> "TASK_STARTED", id |-> taskId])]
  /\ UNCHANGED <<registry, relay>>

\* useEffect on lastMessage: the next frame the agent wrote for the session,
\* forwarded by the relay in the order written
HandleInbound ==
  /\ handling.store.read < Len(Written)
  /\ handling' =
       [handling EXCEPT !.store =
          [handleInbound(handling.store, Written[handling.store.read + 1])
             EXCEPT !.read = @ + 1]]
  /\ UNCHANGED <<registry, relay>>

InitStore == InitRegistry /\ track = "store"

NextStore ==
  \/ Connect
  \/ \E w \in WebSockets : SocketOpen(w)
  \/ \E msg \in StoreInputs : sendChat(msg)
  \/ \E msg \in StoreInputs : startTask(msg)
  \/ \E ok \in BOOLEAN : EnsureRepo(ok)
  \/ \E ok \in BOOLEAN : CreateBranch(ok)
  \/ \E ok \in BOOLEAN : Spawn(ok)
  \/ ToolChunk
  \/ \E exitCode \in ExitCodes, modified \in BOOLEAN :
       ToolExit(exitCode, modified)
  \/ \E ok \in BOOLEAN : CommitAndPush(ok)
  \/ \E ok \in BOOLEAN : CreatePullRequest(ok)
  \/ HandleInbound

SpecStore == InitStore /\ [][NextStore]_vars

\* the frame that ends the reply to the request being handled has been
\* written and the store has handled every frame up to it
ReplyEnded ==
  /\ Written # <<>>
  /\ Written[Len(Written)].type \in
       (IF handling.msg.type = "chat_message"
        THEN {"stream_end"}
        ELSE {"task_done", "error"})
  /\ handling.store.read = Len(Written)

\* ---- C40 -------------------------------------------------------------------
\* C40: once the reply of the agent has ended, by stream_end for a chat and
\* by task_done or error for a task, and the store has handled its frames,
\* no message of the store is in the streaming state.
C40_NoMessageStreamsForever ==
  ReplyEnded =>
    \A i \in 1 .. Len(handling.store.chatMessages) :
      ~handling.store.chatMessages[i].isStreaming

====
